---- MODULE Spec2Model ----
(***************************************************************************)
(* ContentAlchemist (app.py): the research / write / review pipeline, the  *)
(* human decision gate and the draft cleaner, as a state machine.          *)
(* Texts that pass through the cleaner are sequences of one-character      *)
(* strings, so that the regular expressions act on characters.             *)
(***************************************************************************)
EXTENDS Integers, Sequences, FiniteSets, TLC

(* ------------------------------ bounds --------------------------------- *)
\* longest cleaner input, counted in chunks of the chunk table below
MaxChunks == 3
\* how many options of each select box the human chooses among
MaxOptions == 2

(* ------------------------- characters and text ------------------------- *)
UpperChars == <<"A","B","C","D","E","F","G","H","I","J","K","L","M","N","O","P","Q","R","S","T","U","V","W","X","Y","Z">>
LowerChars == <<"a","b","c","d","e","f","g","h","i","j","k","l","m","n","o","p","q","r","s","t","u","v","w","x","y","z">>

\* (?i): two characters match when they are equal after case folding
Lower(c) ==
  IF \E i \in 1..26 : UpperChars[i] = c
  THEN LowerChars[CHOOSE i \in 1..26 : UpperChars[i] = c]
  ELSE c

\* the characters str.strip() removes
IsSpace(c) == c \in {" ", "\n", "\t"}

\* str.strip(): drop leading and trailing whitespace
RECURSIVE LStrip(_)
LStrip(s) == IF s # <<>> /\ IsSpace(Head(s)) THEN LStrip(Tail(s)) ELSE s
RECURSIVE RStrip(_)
RStrip(s) == IF s # <<>> /\ IsSpace(s[Len(s)]) THEN RStrip(SubSeq(s, 1, Len(s) - 1)) ELSE s
StripLeadOnly(s) == LStrip(s)
Strip(s) == RStrip(LStrip(s))

(* ------------------------------ cleaner -------------------------------- *)
\* the literal phrase of each pattern of cleaner_tool, in list order; each
\* pattern is the phrase followed by .* under (?i) and re.DOTALL
patterns == <<
  <<"I", " ", "m", "a", "d", "e", " ", "t", "h", "e", " ", "f", "o", "l", "l", "o", "w", "i", "n", "g">>,
  <<"R", "e", "f", "i", "n", "e", "d", " ", "f", "o", "r", " ", "c", "l", "a", "r", "i", "t", "y">>,
  <<"N", "o", "t", "e", ":">>,
  <<"S", "i", "m", "p", "l", "i", "f", "i", "e", "d", " ", "s", "e", "n", "t", "e", "n", "c", "e">> >>

\* the phrase ph matches the text s at position i
MatchAtExact(ph, s, i) ==
  /\ i + Len(ph) - 1 <= Len(s)
  /\ \A k \in 1..Len(ph) : s[i + k - 1] = ph[k]
MatchAt(ph, s, i) ==
  /\ i + Len(ph) - 1 <= Len(s)
  /\ \A k \in 1..Len(ph) : Lower(s[i + k - 1]) = Lower(ph[k])

\* start of the leftmost match of the pattern in s, 0 when there is none
Find(ph, s) ==
  IF \E i \in 1..Len(s) : MatchAt(ph, s, i)
  THEN CHOOSE i \in 1..Len(s) : MatchAt(ph, s, i) /\ \A j \in 1..(i - 1) : ~MatchAt(ph, s, j)
  ELSE 0

\* re.split(p, s, flags=re.DOTALL)[0]: the match runs to the end of the text,
\* so element 0 is the text before the leftmost match, or all of s
SplitHead(ph, s) ==
  IF Find(ph, s) = 0 THEN s ELSE SubSeq(s, 1, Find(ph, s) - 1)


\* variant: the loop stops one pattern early
RECURSIVE CleanLoopSkipsLast(_, _)
CleanLoopSkipsLast(i, clean) ==
  IF i >= Len(patterns) THEN clean ELSE CleanLoopSkipsLast(i + 1, SplitHead(patterns[i], clean))

\* the for loop of cleaner_tool over patterns[i..], reassigning clean
RECURSIVE CleanLoop(_, _)
CleanLoop(i, clean) ==
  IF i > Len(patterns) THEN clean ELSE CleanLoop(i + 1, SplitHead(patterns[i], clean))

\* variant: every pattern splits the original content, so the split of the
\* last pattern is the one that is returned
RECURSIVE SplitContentLoop(_, _, _)
SplitContentLoop(i, content, clean) ==
  IF i > Len(patterns) THEN clean
  ELSE SplitContentLoop(i + 1, content, SplitHead(patterns[i], content))
cleaner_toolLastWins(content) == Strip(SplitContentLoop(1, content, content))

\* variant: the loop ends at the first pattern that matches
RECURSIVE FirstMatchLoop(_, _)
FirstMatchLoop(i, clean) ==
  IF i > Len(patterns) THEN clean
  ELSE IF Find(patterns[i], clean) # 0 THEN SplitHead(patterns[i], clean)
  ELSE FirstMatchLoop(i + 1, clean)
cleaner_toolFirstWins(content) == Strip(FirstMatchLoop(1, content))

cleaner_tool(content) == Strip(CleanLoop(1, content))

(* --------------------------- cleaner inputs ---------------------------- *)
\* the pieces the cleaner inputs are built from: plain words, whitespace,
\* and the phrases in several spellings
Chunks == <<
  <<"O", "k", ".">>,
  <<" ">>,
  <<"\n">>,
  <<"N", "o", "t", "e", ":">>,
  <<"n", "O", "T", "E", ":">>,
  <<"I", " ", "m", "a", "d", "e", " ", "t", "h", "e", " ", "f", "o", "l", "l", "o", "w", "i", "n", "g">>,
  <<"R", "E", "F", "I", "N", "E", "D", " ", "f", "o", "r", " ", "c", "l", "a", "r", "i", "t", "y">>,
  <<"s", "i", "m", "p", "l", "i", "f", "i", "e", "d", " ", "S", "e", "n", "t", "e", "n", "c", "e">> >>

RECURSIVE Flatten(_)
Flatten(ix) == IF ix = <<>> THEN <<>> ELSE Chunks[Head(ix)] \o Flatten(Tail(ix))

ChunkSeqs == UNION { [1..n -> 1..Len(Chunks)] : n \in 0..MaxChunks }
Texts == { Flatten(ix) : ix \in ChunkSeqs }


(* ------------------------ values from outside -------------------------- *)
\* st.session_state.agent_state before the first completed run, and a local
\* of a handler that is not bound
None == [none |-> TRUE]

\* what the human may have typed in the Topic field ("" is the empty field)
TopicInputs == {"", "AI"}
\* the options of the Format and Tone select boxes
FormatOptions == <<"Blog Post", "Newsletter", "Product Write-up">>
ToneOptions == <<"Formal Corporate", "Casual/Engaging", "Technical/Academic">>
Formats == { FormatOptions[i] : i \in { j \in 1..Len(FormatOptions) : j <= MaxOptions } }
Tones == { ToneOptions[i] : i \in { j \in 1..Len(ToneOptions) : j <= MaxOptions } }
\* what the human may have typed in the feedback text area
Feedbacks == {"", "more formal"}

\* search['results'] as the search provider may return it
SearchReplies ==
  { <<>>,
    << [content |-> "A", url |-> "u1"], [content |-> "B", url |-> "u2"] >> }

\* texts the language model may return for a draft request
RawDrafts ==
  { Flatten(<<1>>), Flatten(<<1, 3, 5, 2, 1>>), Flatten(<<1, 2, 1, 3, 6>>) }

\* the score the language model gives in a critique
Scores == {7}

\* the reviewer's answer: a critique of the draft it was given; "" is the
\* review field of initial_state
EmptyReview == [kind |-> "empty"]
Critique(draft, score) == [kind |-> "critique", of |-> draft, score |-> score]

(* ------------------------------- dicts --------------------------------- *)
\* {**a, **b} and a.update(b): the keys of b override those of a
Merge(a, b) == [k \in (DOMAIN a) \cup (DOMAIN b) |-> IF k \in DOMAIN b THEN b[k] ELSE a[k]]

(* ------------------------------- tools --------------------------------- *)
\* "\n".join of the result contents, as a sequence of pieces
RECURSIVE JoinContents(_)
JoinContents(results) ==
  IF results = <<>> THEN <<>>
  ELSE IF Len(results) = 1 THEN <<results[1].content>>
  ELSE <<results[1].content, "\n">> \o JoinContents(Tail(results))

research_tool(search) ==
  [notes |-> JoinContents(search), urls |-> [i \in 1..Len(search) |-> search[i].url]]

\* research_node, given what the search returned
research_node(state, search) ==
  [notes |-> research_tool(search).notes, urls |-> research_tool(search).urls]

\* the arguments writer_node passes to writer_tool
WriterArgs(state) ==
  [topic |-> state["topic"], content_type |-> state["content_type"],
   notes |-> state["notes"], tone |-> state["tone"], feedback |-> state["feedback"]]


\* variant: the draft is stored as the model returned it
writer_nodeRaw(state, raw) == [draft |-> raw]

\* writer_node, given the raw text the model returned
writer_node(state, raw) == [draft |-> cleaner_tool(raw)]

\* reviewer_node, given the score the model chose for state["draft"]
reviewer_node(state, score) == [review |-> Critique(state["draft"], score)]

(* ------------------------------- state --------------------------------- *)
VARIABLES
  agent_state,    \* st.session_state.agent_state
  ui_step,        \* st.session_state.ui_step
  topic_in,       \* the Topic text input
  pc,             \* the collaborator call the running handler waits for
  initial_state,  \* locals of the Begin handler
  r_state,
  w_state,
  upd_w,          \* local of the Rewrite handler
  click,          \* the last interaction of the human
  outcome,        \* how the script run of that interaction ended
  calls,          \* collaborator calls made by that script run, in order
  returned,       \* how many of them have returned a result
  pre,            \* session state and step when the running handler started
  writer_call,    \* arguments and raw result of the last draft request
  rewritten,      \* a rewrite was triggered since the last completed begin
  content,        \* cleaner: the text under test
  outs            \* cleaner: results of successive applications

vars == << agent_state, ui_step, topic_in, pc, initial_state, r_state, w_state,
           upd_w, click, outcome, calls, returned, pre, writer_call, rewritten,
           content, outs >>

flowVars == << agent_state, ui_step, topic_in, pc, initial_state, r_state, w_state,
               upd_w, click, outcome, calls, returned, pre, writer_call, rewritten >>

Populated == agent_state # None

InitFlow ==
  /\ agent_state = None
  /\ ui_step = "idle"
  /\ topic_in = ""
  /\ pc = "ready"
  /\ initial_state = None
  /\ r_state = None
  /\ w_state = None
  /\ upd_w = None
  /\ click = [button |-> "none"]
  /\ outcome = "none"
  /\ calls = <<>>
  /\ returned = 0
  /\ pre = None
  /\ writer_call = None
  /\ rewritten = FALSE

Init ==
  /\ InitFlow
  /\ content = <<>>
  /\ outs = <<>>

(* ------------------------------ sidebar -------------------------------- *)
\* the human edits the Topic field; the script reruns with no button pressed
EditTopic ==
  /\ pc = "ready"
  /\ \E t \in TopicInputs : t # topic_in /\ topic_in' = t
  /\ click' = [button |-> "edit"]
  /\ outcome' = "done"
  /\ calls' = <<>>
  /\ returned' = 0
  /\ writer_call' = None
  /\ pre' = None
  /\ UNCHANGED << agent_state, ui_step, pc, initial_state, r_state, w_state, upd_w,
                  rewritten, content, outs >>


\* variant: the feedback of the previous run is carried into the new run
InitialStateStaleFeedback(topic, ctype, tone) ==
  [topic |-> topic, content_type |-> ctype, tone |-> tone,
   notes |-> <<>>, urls |-> <<>>, draft |-> <<>>, review |-> EmptyReview,
   feedback |-> IF agent_state # None THEN agent_state["feedback"] ELSE ""]

\* initial_state of the Begin handler
InitialState(topic, ctype, tone) ==
  [topic |-> topic, content_type |-> ctype, tone |-> tone,
   notes |-> <<>>, urls |-> <<>>, draft |-> <<>>, review |-> EmptyReview, feedback |-> ""]

\* the sidebar is drawn in every step, so the button is there in every step
BeginEnabled == pc = "ready"

\* "Begin Transmutation" pressed: initial_state built, research_node called
BeginClick ==
  /\ BeginEnabled
  /\ \E ctype \in Formats, tone \in Tones :
        initial_state' = InitialState(topic_in, ctype, tone)
  /\ pc' = "researching"
  /\ click' = [button |-> "begin"]
  /\ outcome' = "running"
  /\ calls' = <<"research">>
  /\ returned' = 0
  /\ pre' = [agent_state |-> agent_state, ui_step |-> ui_step]
  /\ writer_call' = None
  /\ UNCHANGED << agent_state, ui_step, topic_in, r_state, w_state, upd_w, rewritten,
                  content, outs >>

\* the state the Begin handler passes to writer_node
BeginWriterInput(init, r) == Merge(init, r)

\* research returned; writer_node called with {**initial_state, **r_state}
ResearchReturn ==
  /\ pc = "researching"
  /\ \E search \in SearchReplies :
        r_state' = research_node(initial_state, search)
  /\ writer_call' = [args |-> WriterArgs(BeginWriterInput(initial_state, r_state')), out |-> None]
  /\ pc' = "writing"
  /\ calls' = Append(calls, "writer")
  /\ returned' = returned + 1
  /\ UNCHANGED << agent_state, ui_step, topic_in, initial_state, w_state, upd_w, click,
                  outcome, pre, rewritten, content, outs >>

\* the state the Begin handler passes to reviewer_node
BeginReviewerInput(init, r, w) == Merge(Merge(init, r), w)

\* the draft returned; it is cleaned and reviewer_node is called
WriterReturn ==
  /\ pc = "writing"
  /\ \E raw \in RawDrafts :
        /\ w_state' = writer_node(BeginWriterInput(initial_state, r_state), raw)
        /\ writer_call' = [writer_call EXCEPT !.out = raw]
  /\ pc' = "reviewing"
  /\ calls' = Append(calls, "reviewer")
  /\ returned' = returned + 1
  /\ UNCHANGED << agent_state, ui_step, topic_in, initial_state, r_state, upd_w, click,
                  outcome, pre, rewritten, content, outs >>

\* variant: initial_state is merged last and overrides the results
BeginResultInitLast(init, r, w, rev) == Merge(Merge(Merge(r, w), rev), init)

\* the session state the Begin handler stores
BeginResult(init, r, w, rev) == Merge(Merge(Merge(init, r), w), rev)

\* the review returned; the merged state is stored and the gate opens
ReviewerReturn ==
  /\ pc = "reviewing"
  /\ \E score \in Scores :
        agent_state' = BeginResult(initial_state, r_state, w_state,
                          reviewer_node(BeginReviewerInput(initial_state, r_state, w_state), score))
  /\ ui_step' = "gate"
  /\ pc' = "ready"
  /\ outcome' = "done"
  /\ returned' = returned + 1
  /\ rewritten' = FALSE
  /\ initial_state' = None
  /\ r_state' = None
  /\ w_state' = None
  /\ pre' = None
  /\ UNCHANGED << topic_in, upd_w, click, calls, writer_call, content, outs >>

(* ------------------------------- gate ---------------------------------- *)
\* the session state once the Rewrite handler has recorded the feedback
WithFeedback(state, fb) == [state EXCEPT !["feedback"] = fb]

\* "Yes, Rewrite" chosen, feedback typed, "Trigger Rewrite Tool" pressed:
\* the feedback is stored and writer_node is called with the session state
TriggerRewrite ==
  /\ pc = "ready"
  /\ ui_step = "gate"
  /\ \E fb \in Feedbacks :
        /\ agent_state' = WithFeedback(agent_state, fb)
        /\ click' = [button |-> "rewrite", fb |-> fb]
  /\ writer_call' = [args |-> WriterArgs(agent_state'), out |-> None]
  /\ pc' = "rewriting"
  /\ outcome' = "running"
  /\ calls' = <<"writer">>
  /\ returned' = 0
  /\ pre' = [agent_state |-> agent_state, ui_step |-> ui_step]
  /\ rewritten' = TRUE
  /\ UNCHANGED << ui_step, topic_in, initial_state, r_state, w_state, upd_w, content, outs >>


\* variant: the reviewer is given the session state without the new draft
RewriteReviewerInputStale(state, w) == state

\* the state the Rewrite handler passes to reviewer_node
RewriteReviewerInput(state, w) == Merge(state, w)

\* the new draft returned; it is cleaned and reviewer_node is called
RewriteWriterReturn ==
  /\ pc = "rewriting"
  /\ \E raw \in RawDrafts :
        /\ upd_w' = writer_node(agent_state, raw)
        /\ writer_call' = [writer_call EXCEPT !.out = raw]
  /\ pc' = "rereviewing"
  /\ calls' = Append(calls, "reviewer")
  /\ returned' = returned + 1
  /\ UNCHANGED << agent_state, ui_step, topic_in, initial_state, r_state, w_state, click,
                  outcome, pre, rewritten, content, outs >>


\* variant: the rewrite stores a fresh record, as the Begin handler does
RewriteResultFresh(state, w, r) ==
  Merge(state, Merge([notes |-> <<>>, urls |-> <<>>], Merge(w, r)))

\* agent_state.update({**upd_w, **upd_r})
RewriteResult(state, w, r) == Merge(state, Merge(w, r))

\* the new review returned; draft and review are stored, the script reruns
RewriteReviewerReturn ==
  /\ pc = "rereviewing"
  /\ \E score \in Scores :
        agent_state' = RewriteResult(agent_state, upd_w,
                          reviewer_node(RewriteReviewerInput(agent_state, upd_w), score))
  /\ pc' = "ready"
  /\ outcome' = "done"
  /\ returned' = returned + 1
  /\ upd_w' = None
  /\ pre' = None
  /\ UNCHANGED << ui_step, topic_in, initial_state, r_state, w_state, click, calls,
                  writer_call, rewritten, content, outs >>


\* variant: the publish button is offered outside the gate
FinalizeAnywhere ==
  /\ pc = "ready"
  /\ ui_step' = "finished"
  /\ click' = [button |-> "finalize"]
  /\ outcome' = "done"
  /\ calls' = <<>>
  /\ returned' = 0
  /\ writer_call' = None
  /\ pre' = None
  /\ UNCHANGED << agent_state, topic_in, pc, initial_state, r_state, w_state, upd_w,
                  rewritten, content, outs >>

\* "No, Publish" chosen and "Finalize & Celebrate" pressed
Finalize ==
  /\ pc = "ready"
  /\ ui_step = "gate"
  /\ ui_step' = "finished"
  /\ click' = [button |-> "finalize"]
  /\ outcome' = "done"
  /\ calls' = <<>>
  /\ returned' = 0
  /\ writer_call' = None
  /\ pre' = None
  /\ UNCHANGED << agent_state, topic_in, pc, initial_state, r_state, w_state, upd_w,
                  rewritten, content, outs >>

(* ----------------------------- finished -------------------------------- *)
\* what the "New Project" handler leaves in the session state
NewProjectState(state) == state

\* "New Project" pressed
NewProject ==
  /\ pc = "ready"
  /\ ui_step = "finished"
  /\ ui_step' = "idle"
  /\ agent_state' = NewProjectState(agent_state)
  /\ click' = [button |-> "new"]
  /\ outcome' = "done"
  /\ calls' = <<>>
  /\ returned' = 0
  /\ writer_call' = None
  /\ pre' = None
  /\ UNCHANGED << topic_in, pc, initial_state, r_state, w_state, upd_w,
                  rewritten, content, outs >>

(* ------------------------------- export -------------------------------- *)
\* title.upper(): the text of the title paragraph, as the upper-cased form
\* of the string it is made from
UpperCase(title) == [upper |-> title]

\* text.split('\n')
RECURSIVE SplitLines(_, _)
SplitLines(text, line) ==
  IF text = <<>> THEN << line >>
  ELSE IF Head(text) = "\n" THEN << line >> \o SplitLines(Tail(text), <<>>)
  ELSE SplitLines(Tail(text), Append(line, Head(text)))

\* if para.strip()
NonBlank(para) == Strip(para) # <<>>

\* the story generate_pdf builds: the title, one paragraph per non-blank
\* line of the text, and the sources (none when urls is empty)
generate_pdf(text, title, urls) ==
  [title |-> UpperCase(title),
   body |-> SelectSeq(SplitLines(text, <<>>), NonBlank),
   sources |-> urls]

\* the document the download section builds when the step is finished
pdf == generate_pdf(agent_state["draft"], topic_in, agent_state["urls"])

(* ------------------------------ failures ------------------------------- *)

\* variant: a failed call is repeated
CallFailsRetries ==
  /\ calls' = Append(calls, calls[Len(calls)])
  /\ UNCHANGED << agent_state, ui_step, topic_in, pc, initial_state, r_state, w_state,
                  upd_w, click, outcome, returned, pre, writer_call, rewritten,
                  content, outs >>

\* a collaborator call raises: the exception ends the script run; nothing is
\* caught, so the session state keeps whatever the handler had stored
CallFails ==
  /\ outcome' = "failed"
  /\ pc' = "ready"
  /\ initial_state' = None
  /\ r_state' = None
  /\ w_state' = None
  /\ upd_w' = None
  /\ writer_call' = None
  /\ UNCHANGED << agent_state, ui_step, topic_in, click, calls, returned, pre,
                  rewritten, content, outs >>

\* tavily.search raises
ResearchFails == pc = "researching" /\ CallFails
\* llm.invoke raises in writer_tool
WriterFails == pc \in {"writing", "rewriting"} /\ CallFails
\* llm.invoke raises in reviewer_tool
ReviewerFails == pc \in {"reviewing", "rereviewing"} /\ CallFails

Next ==
  \/ EditTopic
  \/ BeginClick
  \/ ResearchReturn
  \/ WriterReturn
  \/ ReviewerReturn
  \/ TriggerRewrite
  \/ RewriteWriterReturn
  \/ RewriteReviewerReturn
  \/ Finalize
  \/ NewProject
  \/ ResearchFails
  \/ WriterFails
  \/ ReviewerFails

Spec == Init /\ [][Next]_vars

(* ------------------------- the cleaner alone --------------------------- *)
InitClean ==
  /\ InitFlow
  /\ content \in Texts
  /\ outs = <<>>

\* cleaner_tool applied to the text under test
CleanerInvoke ==
  /\ outs = <<>>
  /\ outs' = << cleaner_tool(content) >>
  /\ UNCHANGED << content >>
  /\ UNCHANGED flowVars

\* cleaner_tool applied to its own result
CleanerReinvoke ==
  /\ Len(outs) = 1
  /\ outs' = Append(outs, cleaner_tool(outs[1]))
  /\ UNCHANGED << content >>
  /\ UNCHANGED flowVars

NextClean ==
  \/ CleanerInvoke
  \/ CleanerReinvoke

SpecClean == InitClean /\ [][NextClean]_vars



(* ====================== properties of the workflow ===================== *)
IsPrefix(a, b) == Len(a) <= Len(b) /\ a = SubSeq(b, 1, Len(a))
SearchCount(cs) == Cardinality({ i \in 1..Len(cs) : cs[i] = "research" })
BeginCalls == <<"research", "writer", "reviewer">>
RewriteCalls == <<"writer", "reviewer">>
\* the step is taken by the Rewrite handler (its click, a return or a failure)
RewriteStep == pc \in {"rewriting", "rereviewing"} \/ pc' \in {"rewriting", "rereviewing"}

\* C1: every step of a rewrite, successful or failed, leaves notes and urls
\* of the session state as they were and makes no search call; the script
\* run of a Begin click makes exactly one search call, the script run of a
\* rewrite none.
C1_RewriteKeepsResearch ==
  [][ /\ RewriteStep =>
           /\ agent_state'["notes"] = agent_state["notes"]
           /\ agent_state'["urls"] = agent_state["urls"]
           /\ SearchCount(calls') = 0
      /\ click'.button = "begin" => SearchCount(calls') = 1
      /\ click'.button = "rewrite" => SearchCount(calls') = 0 ]_vars

\* a rewrite has completed on a session state that holds research results
C1_Witness ==
  /\ click.button = "rewrite"
  /\ outcome = "done"
  /\ agent_state["notes"] # <<>>
  /\ agent_state["urls"] # <<>>

\* C2: whenever the session state is populated, the stored review is a
\* critique of exactly the stored draft.
C2_ReviewOfStoredDraft ==
  Populated =>
    /\ agent_state["review"].kind = "critique"
    /\ agent_state["review"].of = agent_state["draft"]

\* a rewrite is waiting for the review of a new draft that differs from the
\* stored one
C2_Witness ==
  /\ pc = "rereviewing"
  /\ upd_w["draft"] # agent_state["draft"]

\* C3: after a collaborator failure the session state and the step equal
\* their values from before the begin or rewrite was triggered.
C3_NoPartialMutation ==
  outcome = "failed" =>
    /\ agent_state = pre.agent_state
    /\ ui_step = pre.ui_step

\* C4: after New Project the step is idle and nothing of the previous run
\* remains in the session state.
C4_NewProjectClears ==
  click.button = "new" =>
    /\ ui_step = "idle"
    /\ \/ agent_state = None
       \/ /\ agent_state["notes"] = <<>>
          /\ agent_state["urls"] = <<>>
          /\ agent_state["draft"] = <<>>
          /\ agent_state["review"] = EmptyReview
          /\ agent_state["feedback"] = ""

\* the script run of a Begin click stores its result
BeginCompletes ==
  /\ click.button = "begin"
  /\ pc = "reviewing"
  /\ calls = BeginCalls
  /\ returned' = 3
  /\ outcome' = "done"
\* a Begin click starts a run
BeginStarts == pc = "ready" /\ pc' = "researching"

\* C5 as stated: the step changes only idle -> gate (completed begin run),
\* gate -> finished (publish), finished -> idle (new project); a completed
\* begin run never re-enters gate from gate; a begin run starts only in idle.
C5_OnlyFromIdle ==
  [][ /\ ui_step' # ui_step =>
           \/ ui_step = "idle" /\ ui_step' = "gate" /\ BeginCompletes
           \/ ui_step = "gate" /\ ui_step' = "finished" /\ click'.button = "finalize"
           \/ ui_step = "finished" /\ ui_step' = "idle" /\ click'.button = "new"
      /\ BeginCompletes => ui_step = "idle"
      /\ BeginStarts => ui_step = "idle" ]_vars

\* C5 amended: a begin run may start in any step; the step changes only to
\* gate by a completed begin run (from any step), gate -> finished by
\* publish, finished -> idle by new project; a completed begin run always
\* ends in gate, and every step of a rewrite starts and ends in gate.
C5_TransitionGraph ==
  [][ /\ ui_step' # ui_step =>
           \/ ui_step \in {"idle", "finished"} /\ ui_step' = "gate" /\ BeginCompletes
           \/ ui_step = "gate" /\ ui_step' = "finished" /\ click'.button = "finalize"
           \/ ui_step = "finished" /\ ui_step' = "idle" /\ click'.button = "new"
      /\ BeginCompletes => ui_step' = "gate"
      /\ RewriteStep => ui_step = "gate" /\ ui_step' = "gate"
      /\ click'.button = "finalize" /\ click' # click => ui_step = "gate"
      /\ click'.button = "new" /\ click' # click => ui_step = "finished" ]_vars

\* a begin run is in progress while the step is finished
C5_Witness ==
  /\ ui_step = "finished"
  /\ pc = "reviewing"

\* C6: after a completed rewrite with feedback F the stored feedback is F,
\* the draft request was made with the stored topic, content_type, tone and
\* notes and with feedback F, the stored draft is the cleaned result of that
\* request, the stored review is a critique of that draft, and the step is
\* gate.
C6_RewriteEffect ==
  (click.button = "rewrite" /\ outcome = "done") =>
    /\ agent_state["feedback"] = click.fb
    /\ writer_call.args = [topic |-> agent_state["topic"],
                           content_type |-> agent_state["content_type"],
                           notes |-> agent_state["notes"],
                           tone |-> agent_state["tone"],
                           feedback |-> click.fb]
    /\ agent_state["draft"] = cleaner_tool(writer_call.out)
    /\ agent_state["review"].kind = "critique"
    /\ agent_state["review"].of = cleaner_tool(writer_call.out)
    /\ ui_step = "gate"

\* a rewrite with non-empty feedback has completed, and the cleaner cut the
\* text the model returned
C6_Witness ==
  /\ click.button = "rewrite"
  /\ outcome = "done"
  /\ click.fb # ""
  /\ agent_state["draft"] # writer_call.out

\* C7: the draft request of a begin run carries empty feedback and the notes
\* of that run's research; and while no rewrite has been triggered since the
\* last completed begin run, the stored feedback is empty.
C7_FeedbackEmptyUntilRejection ==
  /\ pc = "writing" =>
        /\ writer_call.args.feedback = ""
        /\ writer_call.args.notes = r_state["notes"]
  /\ (Populated /\ ~rewritten) => agent_state["feedback"] = ""

\* a begin run has made its draft request with non-empty notes while the
\* session state still holds the feedback of an earlier rewrite
C7_Witness ==
  /\ pc = "writing"
  /\ Populated
  /\ agent_state["feedback"] # ""
  /\ r_state["notes"] # <<>>

\* C8: the calls of a begin run are a prefix of search, draft, review and
\* those of a rewrite a prefix of draft, review; a call is made only when
\* all earlier calls of the run have returned; a completed run has made each
\* call once; after a failure nothing is in flight and the list of calls
\* changes only when the human starts something new.
C8_CallsOk ==
  /\ click.button = "begin" => calls # <<>> /\ IsPrefix(calls, BeginCalls)
  /\ click.button = "rewrite" => calls # <<>> /\ IsPrefix(calls, RewriteCalls)
  /\ outcome \in {"running", "failed"} => returned = Len(calls) - 1
  /\ (outcome = "done" /\ click.button = "begin") => calls = BeginCalls /\ returned = 3
  /\ (outcome = "done" /\ click.button = "rewrite") => calls = RewriteCalls /\ returned = 2
  /\ outcome = "failed" => pc = "ready"
C8_InOrderOnceNoRetry ==
  [][ /\ C8_CallsOk'
      /\ (outcome = "failed" /\ calls' # calls) => (returned' = 0 /\ Len(calls') <= 1) ]_vars

\* the draft request of a begin run has failed
C8_Witness ==
  /\ outcome = "failed"
  /\ click.button = "begin"
  /\ calls = <<"research", "writer">>

\* C13: whenever the step is finished, the exported document is built from
\* the stored draft and urls and carries the stored topic as its title.
C13_ExportOfOneRun ==
  (ui_step = "finished" /\ pc = "ready") =>
    pdf = generate_pdf(agent_state["draft"], agent_state["topic"], agent_state["urls"])

\* the script run of a rewrite stores its result
RewriteCompletes == pc = "rereviewing" /\ outcome' = "done"
\* notes, urls, draft and review are the same before and after the step
SameContent ==
  /\ agent_state'["notes"] = agent_state["notes"]
  /\ agent_state'["urls"] = agent_state["urls"]
  /\ agent_state'["draft"] = agent_state["draft"]
  /\ agent_state'["review"] = agent_state["review"]

\* C14: at gate and at finished the session state is present; its notes,
\* urls, draft and review are stored together by one completed begin run
\* from that run's own results, a completed rewrite replaces draft and review
\* by its own results and keeps notes and urls, and no other step (a failed
\* call, a click, an edit) changes any of the four or drops the state.
C14_PopulatedByOneRun ==
  [][ /\ ui_step' \in {"gate", "finished"} => agent_state' # None
      /\ BeginCompletes =>
           /\ agent_state'["notes"] = r_state["notes"]
           /\ agent_state'["urls"] = r_state["urls"]
           /\ agent_state'["draft"] = w_state["draft"]
           /\ agent_state'["review"].kind = "critique"
           /\ agent_state'["review"].of = w_state["draft"]
      /\ RewriteCompletes =>
           /\ agent_state'["notes"] = agent_state["notes"]
           /\ agent_state'["urls"] = agent_state["urls"]
           /\ agent_state'["draft"] = upd_w["draft"]
           /\ agent_state'["review"].kind = "critique"
           /\ agent_state'["review"].of = upd_w["draft"]
      /\ (~BeginCompletes /\ ~RewriteCompletes) =>
           IF agent_state = None THEN agent_state' = None
           ELSE agent_state' # None /\ SameContent ]_vars

\* a begin run started at finished has failed after a rewrite of the stored
\* run: the export section still has that run's state
C14_Witness ==
  /\ ui_step = "finished"
  /\ outcome = "failed"
  /\ click.button = "begin"
  /\ rewritten
  /\ agent_state # None
  /\ agent_state["notes"] # <<>>

(* ======================= properties of the cleaner ===================== *)
\* the phrase occurs in s, letters compared without regard to case
Occurs(ph, s) ==
  \E i \in 1..(Len(s) - Len(ph) + 1) :
     \A k \in 1..Len(ph) : Lower(s[i + k - 1]) = Lower(ph[k])
\* s contains a recognized phrase
Recognized(s) == \E p \in 1..Len(patterns) : Occurs(patterns[p], s)
\* t is s without its leading and trailing whitespace
IsStripOf(t, s) ==
  \E i \in 1..(Len(s) + 1), j \in 0..Len(s) :
     /\ t = SubSeq(s, i, j)
     /\ \A k \in 1..(i - 1) : IsSpace(s[k])
     /\ \A k \in (j + 1)..Len(s) : IsSpace(s[k])
     /\ t # <<>> => ~IsSpace(s[i]) /\ ~IsSpace(s[j])

\* C9: for a text that contains a recognized phrase, the cleaner's result is
\* the stripped form of a strict prefix of the text and contains no
\* recognized phrase.
C9_CutsRecognizedPhrases ==
  (Len(outs) >= 1 /\ Recognized(content)) =>
    /\ \E n \in 0..(Len(content) - 1) : IsStripOf(outs[1], SubSeq(content, 1, n))
    /\ ~Recognized(outs[1])

\* the cleaner has cut a phrase spelled in another case than the pattern and
\* kept some text
C9_Witness ==
  /\ Len(outs) >= 1
  /\ Recognized(content)
  /\ \E p \in 1..Len(patterns) :
        Occurs(patterns[p], content) /\ \A i \in 1..Len(content) : ~MatchAtExact(patterns[p], content, i)
  /\ outs[1] # <<>>

\* C10: for a text without a recognized phrase the cleaner's result is the
\* text stripped; and cleaning the result again gives the same result.
C10_StripAndIdempotent ==
  /\ (Len(outs) >= 1 /\ ~Recognized(content)) => IsStripOf(outs[1], content)
  /\ Len(outs) = 2 => outs[2] = outs[1]

\* the cleaner has run twice on a text without a phrase that had whitespace
\* on both ends and text between
C10_Witness ==
  /\ Len(outs) = 2
  /\ ~Recognized(content)
  /\ Len(content) >= 3
  /\ IsSpace(content[1])
  /\ IsSpace(content[Len(content)])
  /\ outs[1] # <<>>


\* the phrase occurs in s at position i, letters compared without regard to case
OccursAt(ph, s, i) ==
  /\ i >= 1
  /\ i + Len(ph) - 1 <= Len(s)
  /\ \A k \in 1..Len(ph) : Lower(s[i + k - 1]) = Lower(ph[k])
\* position of the first occurrence of the phrase in s (the phrase occurs)
FirstAt(ph, s) ==
  CHOOSE i \in 1..Len(s) : OccursAt(ph, s, i) /\ \A j \in 1..(i - 1) : ~OccursAt(ph, s, j)
\* the patterns, by place in the list, that occur in s
Matching(s) == { p \in 1..Len(patterns) : Occurs(patterns[p], s) }
MinOf(S) == CHOOSE x \in S : \A y \in S : x <= y
MaxOf(S) == CHOOSE x \in S : \A y \in S : x >= y
\* position of the earliest occurrence of any recognized phrase in s
EarliestAt(s) == MinOf({ FirstAt(patterns[p], s) : p \in Matching(s) })
\* s cut strictly before position i
Before(s, i) == SubSeq(s, 1, i - 1)

\* C11 as stated: when two or more patterns occur in the text, the result is
\* the text cut before the first occurrence of the matching pattern that
\* comes last in the list, stripped.
C11_LastPatternWins ==
  (Len(outs) >= 1 /\ Cardinality(Matching(content)) >= 2) =>
    IsStripOf(outs[1],
              Before(content, FirstAt(patterns[MaxOf(Matching(content))], content)))

\* C11 amended: when two or more patterns occur in the text, the result is
\* the text cut before the first occurrence of the matching pattern whose
\* first occurrence comes earliest in the text, stripped, whatever the places
\* of the patterns in the list.
C11_EarliestOfSeveralWins ==
  (Len(outs) >= 1 /\ Cardinality(Matching(content)) >= 2) =>
    \E p \in Matching(content) :
       /\ \A q \in Matching(content) :
             FirstAt(patterns[p], content) <= FirstAt(patterns[q], content)
       /\ IsStripOf(outs[1], Before(content, FirstAt(patterns[p], content)))

\* the cleaner has run on a text with several patterns in which the last
\* matching pattern of the list occurs after another pattern, with text kept
C11_Witness ==
  /\ Len(outs) >= 1
  /\ Cardinality(Matching(content)) >= 2
  /\ FirstAt(patterns[MaxOf(Matching(content))], content) > EarliestAt(content)
  /\ outs[1] # <<>>

\* C12 as stated: the result is the text cut before the match of the first
\* pattern in list order that occurs anywhere in the text, stripped; later
\* patterns have no effect.
C12_FirstPatternWins ==
  (Len(outs) >= 1 /\ Matching(content) # {}) =>
    IsStripOf(outs[1],
              Before(content, FirstAt(patterns[MinOf(Matching(content))], content)))

\* C12 amended: let f be the first pattern in list order that occurs in the
\* text. If no other pattern occurs before f's match, the result is the text
\* cut before f's match, stripped. If a later pattern of the list occurs
\* before f's match, that pattern does take effect: the result is the
\* stripped form of a shorter cut, one that holds no recognized phrase.
C12_FirstPatternUnlessEarlier ==
  (Len(outs) >= 1 /\ Matching(content) # {}) =>
    LET f == MinOf(Matching(content))
        at == FirstAt(patterns[f], content)
        earlier == { q \in Matching(content) : FirstAt(patterns[q], content) < at }
    IN  /\ earlier = {} => IsStripOf(outs[1], Before(content, at))
        /\ earlier # {} =>
              /\ \E n \in 1..(at - 1) : IsStripOf(outs[1], Before(content, n))
              /\ ~Recognized(outs[1])
              /\ ~IsStripOf(outs[1], Before(content, at))

\* the cleaner has run on a text in which a later pattern of the list occurs
\* before the match of the first matching pattern of the list
C12_Witness ==
  /\ Len(outs) >= 1
  /\ Matching(content) # {}
  /\ FirstAt(patterns[MinOf(Matching(content))], content) > EarliestAt(content)
  /\ Len(outs[1]) >= 3

\* C15: the result is the text cut before the earliest occurrence of any
\* recognized phrase (the whole text when there is none), stripped; the
\* position does not depend on the places of the patterns in the list.
C15_EarliestPositionCut ==
  Len(outs) >= 1 =>
    IF Matching(content) = {}
    THEN IsStripOf(outs[1], content)
    ELSE IsStripOf(outs[1], Before(content, EarliestAt(content)))

\* the cleaner has run on a text with three different patterns whose order in
\* the text is not their order in the list
C15_Witness ==
  /\ Len(outs) >= 1
  /\ Cardinality(Matching(content)) = 3
  /\ \E p, q \in Matching(content) :
        p < q /\ FirstAt(patterns[q], content) < FirstAt(patterns[p], content)

====
